---- MODULE Spec2Model ----
(***************************************************************************)
(* Call-state tracking and event fan-out core of the GSM call router:      *)
(* AsteriskManager (app/asterisk_manager.py, app/handlers.py) and the      *)
(* websocket endpoint (app/main.py), as a state machine.                   *)
(*                                                                         *)
(* _handle_ami_event is synchronous and runs on the asyncio event loop; it *)
(* spawns one broadcast task per event (asyncio.create_task) and one       *)
(* routing task per incoming GSM call.  Tasks take their first step in     *)
(* creation order (the loop's ready queue is FIFO) and may be suspended at *)
(* every await, where any other task, handler or endpoint may run.  A send *)
(* is a push from the call of send_text on; the await returns or raises    *)
(* at any later time.                                                      *)
(***************************************************************************)
EXTENDS Naturals, Sequences, FiniteSets

\* ------------------------------------------------------------------ bounds
\* Spec: the events processed and the websocket connections opened.
MaxEvents == 2
MaxClients == 2
\* SpecRegistry: the events processed when no websocket client connects.
MaxRegEvents == 4

\* SpecSession: the events processed, the websocket connections opened and the
\* commands the subscribers' requests send.
MaxSesEvents == 1
MaxSesClients == 2
MaxSesCommands == 1
\* SpecClassify: the events processed.
MaxClsEvents == 1
\* SpecLive: the events processed while the link stays connected.
MaxLiveEvents == 3
\* SpecGateway: the events processed and the commands the control API sends.
MaxGwEvents == 1
MaxGwCommands == 2
\* SpecRouting: the events processed and the commands the control API sends.
MaxRtEvents == 2
MaxRtCommands == 1

Handles == 1..MaxClients
Uids == {"u1", "u2"}

\* ------------------------------------------------------------ input values
GsmChannel == <<"G", "S", "M", "/", "1">>
SipChannel == <<"S", "I", "P", "/", "7">>
EventTypes == {"Newchannel", "Newstate", "Hangup", "Dial"}
ChannelStates == {"6", "4"}

\* Events for the classifier: channel names with the marker in upper, lower and
\* mixed case, inside the name, with its letters apart, and without it; the
\* contexts the code names and one it does not; channel states up (6), ringing
\* (4) and missing.
ClsChannels ==
  { GsmChannel, <<"g", "s", "m", "/", "2">>, <<"G", "s", "M", "/", "3">>,
    <<"S", "I", "P", "/", "g", "s", "m">>, <<"G", "S", "/", "M">>, SipChannel }
ClsContexts == {"from-gsm", "from-bevatel", "from-internal", "unknown-ctx"}
ClsChannelStates == {"6", "4", ""}
ClsEvents ==
  { [Event |-> t, Uniqueid |-> u, Channel |-> ch, Context |-> cx, ChannelState |-> cs] :
      t \in EventTypes, u \in Uids, ch \in ClsChannels, cx \in ClsContexts,
      cs \in ClsChannelStates }

\* Events for the routing: a channel with the marker and one without, under
\* every context, so that creation events of every call type occur.
RtEvents ==
  { ev \in ClsEvents :
      /\ ev.Channel \in {<<"g", "s", "m", "/", "2">>, SipChannel}
      /\ ev.ChannelState = "6" }

\* Arguments of the control API.
Numbers == {"1000", "2000"}
Channels == {GsmChannel, SipChannel}

\* What a subscriber sends: text that is not JSON, JSON that is not an object,
\* or an object; a field that is missing or empty is "" (<<>> for the channel).
\* An object carries only the fields that the handling of its type reads.
WsObjects ==
  { o \in [kind : {"object"},
           type : {"originate_call", "hangup_call", "get_status", "get_active_calls",
                   "bogus", ""},
           to_number : {"", "1000"}, from_number : {"", "2000"},
           channel : {<<>>, GsmChannel}] :
      /\ o.type # "originate_call" => (o.to_number = "" /\ o.from_number = "")
      /\ o.type # "hangup_call" => o.channel = <<>> }
WsInputs ==
  WsObjects \cup
    { [kind |-> k, type |-> "", to_number |-> "", from_number |-> "", channel |-> <<>>] :
        k \in {"invalid_json", "not_an_object"} }

\* A unique id names one channel for the call's lifetime: u1 is a call on the GSM
\* gateway, u2 a call between extensions.
ChannelOf(u) == IF u = "u1" THEN GsmChannel ELSE SipChannel
ContextOf(u) == IF u = "u1" THEN "from-gsm" ELSE "from-internal"

RawEvents ==
  { [Event |-> t, Uniqueid |-> u, Channel |-> ChannelOf(u), Context |-> ContextOf(u),
     ChannelState |-> cs] :
      t \in EventTypes, u \in Uids, cs \in ChannelStates }

\* ------------------------------------------------------------------- state
VARIABLES
  connected,          \* self.connected
  client,             \* self.client is set (TRUE) or None (FALSE)
  websocket_clients,  \* self.websocket_clients, a list of handles
  active_calls,       \* self.active_calls: unique_id -> CallEvent object (0: no key)
  objs,               \* the CallEvent objects, one per processed event (Freed: unreachable)
  btask,              \* the _broadcast_event task of each processed event
  rtask,              \* the _handle_incoming_gsm_call task of each processed event:
                      \*   pc none (not started), created, done; unique_id of its call
  commands,           \* actions sent to the telephony link, in order
  wspc,               \* position of each handle's websocket_endpoint coroutine:
                      \*   idle     not connected yet
                      \*   status   subscribed, suspended in the send of the status snapshot
                      \*   calls    suspended in the send of the active-calls snapshot
                      \*   receive  both snapshots sent, suspended in receive_text
                      \*   reply    suspended in the send of the answer to a message
                      \*   closed   the endpoint has returned
  sent,               \* per handle, the events whose notification was pushed to it
                      \* (send_text called by a broadcast task), in order
  lifecycle,          \* per unique_id, how far its events follow creation, answer, hangup
  result,             \* what the last call of the control API (REST) returned or raised
  reply,              \* per handle, the message its endpoint is sending in answer to
                      \* the last message received from the subscriber
  handlers_active_calls
                      \* self.active_calls of the manager of handlers.py when it is
                      \* given the same events: unique_id -> the event stored (0: no key)

vars == <<connected, client, websocket_clients, active_calls, objs, btask, rtask,
          commands, wspc, sent, lifecycle, result, reply, handlers_active_calls>>

Range(s) == { s[i] : i \in DOMAIN s }

\* ---------------------------------------------------------------- models.py
\* CallState.X.value and CallType.X.value, as CallEvent.to_dict writes them.
StateValue(st) ==
  CASE st = "RINGING" -> "ringing"
    [] st = "ANSWERED" -> "answered"
    [] st = "HANGUP" -> "hangup"

TypeValue(ty) ==
  CASE ty = "INCOMING_GSM" -> "incoming_gsm"
    [] ty = "INTERNAL" -> "internal"
    [] ty = "SIP_TRUNK" -> "sip_trunk"

\* CallEvent.to_dict followed by json.dumps: the text pushed for object o.
\* caller_id, extension and timestamp are passed through untouched and are
\* left out of the model.
ToDict(o) ==
  [event_type |-> o.event_type, channel |-> o.channel, unique_id |-> o.unique_id,
   call_state |-> StateValue(o.call_state), call_type |-> TypeValue(o.call_type)]

\* --------------------------------------------------------------- classifier
\* str.lower() on the characters the channel names of the model use.
LowerChar(c) ==
  CASE c = "G" -> "g" [] c = "S" -> "s" [] c = "M" -> "m"
    [] c = "I" -> "i" [] c = "P" -> "p" [] OTHER -> c

Lower(s) == [i \in DOMAIN s |-> LowerChar(s[i])]

\* sub in s
Contains(s, sub) ==
  \E i \in 1..(Len(s) + 1) :
    /\ i + Len(sub) - 1 <= Len(s)
    /\ SubSeq(s, i, i + Len(sub) - 1) = sub

\* DetermineCallType looking for the marker in the channel name as it is.
DetermineCallType_NoLower(channel, context) ==
  IF Contains(channel, <<"g", "s", "m">>) \/ context = "from-gsm"
    THEN "INCOMING_GSM"
  ELSE IF context = "from-bevatel" THEN "SIP_TRUNK"
  ELSE IF context = "from-internal" THEN "INTERNAL"
  ELSE "INCOMING_GSM"

DetermineCallType(channel, context) ==
  IF Contains(Lower(channel), <<"g", "s", "m">>) \/ context = "from-gsm"
    THEN "INCOMING_GSM"
  ELSE IF context = "from-bevatel" THEN "SIP_TRUNK"
  ELSE IF context = "from-internal" THEN "INTERNAL"
  ELSE "INCOMING_GSM"

\* DetermineCallState taking every Newstate for an answer.
DetermineCallState_AnyNewstate(event_type, channel_state) ==
  IF event_type = "Newchannel" THEN "RINGING"
  ELSE IF event_type = "Newstate" THEN "ANSWERED"
  ELSE IF event_type = "Hangup" THEN "HANGUP"
  ELSE "RINGING"

DetermineCallState(event_type, channel_state) ==
  IF event_type = "Newchannel" THEN "RINGING"
  ELSE IF event_type = "Newstate" /\ channel_state = "6" THEN "ANSWERED"
  ELSE IF event_type = "Hangup" THEN "HANGUP"
  ELSE "RINGING"

\* The CallEvent object _handle_ami_event builds from a raw event.
NewCallEvent(ev) ==
  [event_type |-> ev.Event, channel |-> ev.Channel, unique_id |-> ev.Uniqueid,
   call_state |-> DetermineCallState(ev.Event, ev.ChannelState),
   call_type |-> DetermineCallType(ev.Channel, ev.Context)]

\* ------------------------------------------------------------ the registry
\* CallsAfter with the Hangup branch lost: the entry stays.
CallsAfter_HangupKeeps(calls, ev, n) ==
  IF ev.Event = "Newchannel" THEN [calls EXCEPT ![ev.Uniqueid] = n] ELSE calls

\* CallsAfter with a Hangup that empties the registry.
CallsAfter_HangupClears(calls, ev, n) ==
  IF ev.Event = "Newchannel" THEN [calls EXCEPT ![ev.Uniqueid] = n]
  ELSE IF ev.Event = "Hangup" THEN [u \in Uids |-> 0]
  ELSE calls

\* CallsAfter with a Newstate that inserts the event when the id has no entry.
CallsAfter_NewstateInserts(calls, ev, n) ==
  IF ev.Event = "Newchannel" THEN [calls EXCEPT ![ev.Uniqueid] = n]
  ELSE IF ev.Event = "Newstate" /\ calls[ev.Uniqueid] = 0
    THEN [calls EXCEPT ![ev.Uniqueid] = n]
  ELSE IF ev.Event = "Hangup" /\ calls[ev.Uniqueid] # 0
    THEN [calls EXCEPT ![ev.Uniqueid] = 0]
  ELSE calls

\* CallsAfter with a Newchannel that drops the entry when the id has one.
CallsAfter_ReplayDrops(calls, ev, n) ==
  IF ev.Event = "Newchannel"
    THEN [calls EXCEPT ![ev.Uniqueid] = IF @ = 0 THEN n ELSE 0]
  ELSE IF ev.Event = "Hangup" /\ calls[ev.Uniqueid] # 0
    THEN [calls EXCEPT ![ev.Uniqueid] = 0]
  ELSE calls

\* self.active_calls after the event's branch; n is the new object.
CallsAfter(calls, ev, n) ==
  IF ev.Event = "Newchannel" THEN [calls EXCEPT ![ev.Uniqueid] = n]
  ELSE IF ev.Event = "Hangup" /\ calls[ev.Uniqueid] # 0
    THEN [calls EXCEPT ![ev.Uniqueid] = 0]
  ELSE calls

\* ObjsAfter with a Newstate of any channel state marking the entry answered.
ObjsAfter_AnyState(heap, calls, ev) ==
  IF ev.Event = "Newstate" /\ calls[ev.Uniqueid] # 0
    THEN [heap EXCEPT ![calls[ev.Uniqueid]].call_state = "ANSWERED"]
  ELSE heap

\* HandlersCallsAfter with a Newstate of channel state 6 that drops the entry.
HandlersCallsAfter_AnswerDrops(calls, ev, n) ==
  IF ev.Event = "Newchannel" THEN [calls EXCEPT ![ev.Uniqueid] = n]
  ELSE IF ev.Event = "Newstate" /\ ev.ChannelState = "6"
    THEN [calls EXCEPT ![ev.Uniqueid] = 0]
  ELSE IF ev.Event = "Hangup" /\ calls[ev.Uniqueid] # 0
    THEN [calls EXCEPT ![ev.Uniqueid] = 0]
  ELSE calls

\* self.active_calls of the manager of handlers.py after the event's branch; n
\* is the new object.  Its Newstate and Dial branches only log.
HandlersCallsAfter(calls, ev, n) ==
  IF ev.Event = "Newchannel" THEN [calls EXCEPT ![ev.Uniqueid] = n]
  ELSE IF ev.Event = "Newstate" THEN calls
  ELSE IF ev.Event = "Hangup"
    THEN IF calls[ev.Uniqueid] # 0 THEN [calls EXCEPT ![ev.Uniqueid] = 0] ELSE calls
  ELSE calls

\* len(self.active_calls), as get_status reports it.
ActiveCallCount(calls) == Cardinality({u \in Uids : calls[u] # 0})

\* The objects after the event's branch: a Newstate with ChannelState 6 writes
\* call_state of the object the registry holds for the id, in place.
ObjsAfter(heap, calls, ev) ==
  IF ev.Event = "Newstate" /\ ev.ChannelState = "6" /\ calls[ev.Uniqueid] # 0
    THEN [heap EXCEPT ![calls[ev.Uniqueid]].call_state = "ANSWERED"]
  ELSE heap

\* StartsRouting for a creation event of any call type.
StartsRouting_AnyType(ev) == ev.Event = "Newchannel"

\* Whether the event's branch starts a routing task.
StartsRouting(ev) ==
  ev.Event = "Newchannel"
    /\ DetermineCallType(ev.Channel, ev.Context) = "INCOMING_GSM"

\* The routing task the event's branch creates, if it creates one.
NewRoutingTask(ev) ==
  IF StartsRouting(ev) THEN [pc |-> "created", unique_id |-> ev.Uniqueid]
  ELSE [pc |-> "none", unique_id |-> ""]

\* Whether the event's branch wrote the registry or an entry of it.
Mutates(calls, ev) ==
  \/ ev.Event = "Newchannel"
  \/ ev.Event = "Newstate" /\ ev.ChannelState = "6" /\ calls[ev.Uniqueid] # 0
  \/ ev.Event = "Hangup" /\ calls[ev.Uniqueid] # 0

\* What lifecycle records of an event.
Kind(ev) ==
  IF ev.Event = "Newstate" /\ ev.ChannelState = "6" THEN "Newstate6" ELSE ev.Event

\* lifecycle of an id after an event of kind k for it: "created" after a creation
\* event, "answered" after creation then Newstate 6, "hungup" after creation,
\* Newstate 6, Hangup, with no other event for the id in between.
LifecycleAfter(p, k) ==
  CASE k = "Newchannel" -> "created"
    [] k = "Newstate6" -> IF p = "created" THEN "answered" ELSE "other"
    [] k = "Hangup" -> IF p = "answered" THEN "hungup" ELSE "other"
    [] OTHER -> "other"

\* An object nothing refers to any more: it is not a registry entry, and its
\* event's tasks have read what they read of it.
Freed ==
  [event_type |-> "", channel |-> <<>>, unique_id |-> "", call_state |-> "",
   call_type |-> ""]

Collect(heap, calls, bt, rt) ==
  [n \in DOMAIN heap |->
     IF (\E u \in Uids : calls[u] = n) \/ bt[n].pc = "created" \/ rt[n].pc = "created"
       THEN heap[n] ELSE Freed]

\* --------------------------------------------------------- the broadcast hub
\* list.remove(h): the first occurrence of h goes.
FirstIndex(list, h) ==
  CHOOSE i \in DOMAIN list : list[i] = h /\ \A j \in 1..(i - 1) : list[j] # h

ListRemove(list, h) ==
  LET i == FirstIndex(list, h)
  IN SubSeq(list, 1, i - 1) \o SubSeq(list, i + 1, Len(list))

\* RemoveWebsocketClient that leaves the handle in the list.
RemoveWebsocketClient_Keeps(list, h) == list

\* remove_websocket_client: guarded by a membership test.
RemoveWebsocketClient(list, h) ==
  IF h \in Range(list) THEN ListRemove(list, h) ELSE list

\* add_websocket_client.
AddWebsocketClient(list, h) == Append(list, h)

\* RemoveDisconnected with the removal loop lost: failed handles stay subscribed.
RemoveDisconnected_Keeps(list, disc) == [list |-> list, raised |-> FALSE]

\* The loop "for websocket in disconnected_clients: self.websocket_clients.remove
\* (websocket)": list.remove raises ValueError for a handle that is not in the
\* list, which ends the loop and the task with the removals made so far.
RECURSIVE RemoveDisconnected(_, _)
RemoveDisconnected(list, disc) ==
  IF disc = <<>> THEN [list |-> list, raised |-> FALSE]
  ELSE IF Head(disc) \notin Range(list) THEN [list |-> list, raised |-> TRUE]
  ELSE RemoveDisconnected(ListRemove(list, Head(disc)), Tail(disc))

\* The text a broadcast task pushes: json.dumps(event.to_dict()), built from the
\* object as it is when the task takes its first step.  n names the event.
EventMessage(n, o) == [kind |-> "event", n |-> n, body |-> ToDict(o)]

\* The message local before json.dumps has run.
NoMessage == [kind |-> "none", n |-> 0, body |-> Freed]

\* A broadcast task that was created and has not run yet.
\*   pc            created, await (suspended in send_text), done, raised
\*   message, idx, cur, disconnected_clients: the locals of _broadcast_event
\*     (idx: the list iterator's index, cur: the handle being sent to)
\*   got, present, disturbed, mutated: history of the running task
\*     got       the handles whose send returned
\*     present   the handles in the list since the first step, without a break
\*     disturbed the list was changed by someone else since the first step
\*               (until then the list is the list the task started with)
\*     mutated   the task's event wrote the registry
\* A task that has ended keeps its pc only.
NewBroadcastTask(mut) ==
  [pc |-> "created", message |-> NoMessage, idx |-> 0, cur |-> 0,
   disconnected_clients |-> <<>>,
   got |-> {}, present |-> {},
   disturbed |-> FALSE, mutated |-> mut]

Ended(t) == [NewBroadcastTask(FALSE) EXCEPT !.pc = t.pc]

\* The handles a running task has called send_text on.
Tried(t) == t.got \cup Range(t.disconnected_clients) \cup (IF t.cur = 0 THEN {} ELSE {t.cur})

\* What the other running broadcasts see of a change of the list.
Disturb(tasks, old, new) ==
  IF old = new THEN tasks
  ELSE [i \in DOMAIN tasks |->
          IF tasks[i].pc = "await"
            THEN [tasks[i] EXCEPT !.disturbed = TRUE,
                                  !.present = @ \cap Range(new)]
            ELSE tasks[i]]

\* The for loop of _broadcast_event from the iterator's next() on: either the
\* next handle is taken and send_text is called on it (the task is suspended in
\* the await), or the iterator is exhausted and the removal loop runs.
LoopNext(t, list) ==
  IF t.idx < Len(list)
    THEN [task |-> [t EXCEPT !.pc = "await", !.idx = @ + 1, !.cur = list[t.idx + 1]],
          list |-> list,
          push |-> list[t.idx + 1]]
    ELSE LET r == RemoveDisconnected(list, t.disconnected_clients)
         IN [task |-> [t EXCEPT !.pc = IF r.raised THEN "raised" ELSE "done",
                                !.cur = 0],
             list |-> r.list,
             push |-> 0]

\* _broadcast_event resumed from the await with the send's outcome: the except
\* branch records the handle, then the loop goes on.
Resumed(t, ok, list) ==
  LoopNext(IF ok THEN [t EXCEPT !.got = @ \cup {t.cur}]
                 ELSE [t EXCEPT !.disconnected_clients = Append(@, t.cur)],
           list)

\* The task as btask keeps it after a step.
Kept(t) == IF t.pc \in {"done", "raised"} THEN Ended(t) ELSE t

\* sent after the step of a task: the push is appended for the handle pushed to.
SentAfter(r) ==
  IF r.push = 0 THEN sent
  ELSE [sent EXCEPT ![r.push] = Append(@, r.task.message.n)]

\* Tasks run their first step in the order they were created.
EarlierStarted(n) ==
  \A m \in 1..(n - 1) : btask[m].pc # "created" /\ rtask[m].pc # "created"

\* ------------------------------------------------------ the control gateway
\* No message is being sent in answer to the subscriber.
NoReply == [type |-> "none", success |-> FALSE, message |-> ""]

\* No call of the control API yet.
NoResult == [op |-> "none", success |-> FALSE]

\* f'SIP/{to_number}'
SipOf(to_number) == <<"S", "I", "P", "/", to_number>>

\* OriginateCall without the test of the link.
OriginateCall_NoGuard(conn, cl, cmds, to_number, from_number, context, ok) ==
  IF ok
    THEN [success |-> TRUE,
          commands |-> Append(cmds, [action |-> "Originate", channel |-> SipOf(to_number),
                                     context |-> context, exten |-> to_number,
                                     callerid |-> from_number])]
  ELSE [success |-> FALSE, commands |-> cmds]

\* originate_call: what it returns and the commands sent after it; ok is whether
\* send_action returns.
OriginateCall(conn, cl, cmds, to_number, from_number, context, ok) ==
  IF ~conn \/ ~cl THEN [success |-> FALSE, commands |-> cmds]
  ELSE IF ok
    THEN [success |-> TRUE,
          commands |-> Append(cmds, [action |-> "Originate", channel |-> SipOf(to_number),
                                     context |-> context, exten |-> to_number,
                                     callerid |-> from_number])]
  ELSE [success |-> FALSE, commands |-> cmds]

\* hangup_call, likewise.
HangupCall(conn, cl, cmds, channel, ok) ==
  IF ~conn \/ ~cl THEN [success |-> FALSE, commands |-> cmds]
  ELSE IF ok
    THEN [success |-> TRUE,
          commands |-> Append(cmds, [action |-> "Hangup", channel |-> channel])]
  ELSE [success |-> FALSE, commands |-> cmds]

\* get_status; host and port never change and are left out.
GetStatus ==
  [connected |-> connected,
   active_calls |-> Cardinality({u \in Uids : active_calls[u] # 0}),
   websocket_clients |-> Len(websocket_clients)]

\* A message of the given type in answer to the subscriber, with the text of an
\* error message; the data of the snapshots and the echoed arguments are left out.
Answer(type, success, message) ==
  [type |-> type, success |-> success, message |-> message]

\* HandleWebsocketMessage answering an unknown type with the status.
HandleWebsocketMessage_UnknownIsStatus(msg, conn, cl, cmds, ok) ==
  IF msg.type = "originate_call"
    THEN IF msg.to_number = "" \/ msg.from_number = ""
           THEN [reply |-> Answer("error", FALSE, "Missing to_number or from_number"),
                 commands |-> cmds]
           ELSE LET r == OriginateCall(conn, cl, cmds, msg.to_number, msg.from_number,
                                       "from-internal", ok)
                IN [reply |-> Answer("originate_response", r.success, ""),
                    commands |-> r.commands]
  ELSE IF msg.type = "hangup_call"
    THEN IF msg.channel = <<>>
           THEN [reply |-> Answer("error", FALSE, "Missing channel"), commands |-> cmds]
           ELSE LET r == HangupCall(conn, cl, cmds, msg.channel, ok)
                IN [reply |-> Answer("hangup_response", r.success, ""),
                    commands |-> r.commands]
  ELSE IF msg.type = "get_active_calls"
    THEN [reply |-> Answer("active_calls", FALSE, ""), commands |-> cmds]
  ELSE [reply |-> Answer("status", FALSE, ""), commands |-> cmds]

\* handle_websocket_message on a JSON object: the message it sends in answer and
\* the commands sent after it; ok is whether send_action returns.
HandleWebsocketMessage(msg, conn, cl, cmds, ok) ==
  IF msg.type = "originate_call"
    THEN IF msg.to_number = "" \/ msg.from_number = ""
           THEN [reply |-> Answer("error", FALSE, "Missing to_number or from_number"),
                 commands |-> cmds]
           ELSE LET r == OriginateCall(conn, cl, cmds, msg.to_number, msg.from_number,
                                       "from-internal", ok)
                IN [reply |-> Answer("originate_response", r.success, ""),
                    commands |-> r.commands]
  ELSE IF msg.type = "hangup_call"
    THEN IF msg.channel = <<>>
           THEN [reply |-> Answer("error", FALSE, "Missing channel"), commands |-> cmds]
           ELSE LET r == HangupCall(conn, cl, cmds, msg.channel, ok)
                IN [reply |-> Answer("hangup_response", r.success, ""),
                    commands |-> r.commands]
  ELSE IF msg.type = "get_status"
    THEN [reply |-> Answer("status", FALSE, ""), commands |-> cmds]
  ELSE IF msg.type = "get_active_calls"
    THEN [reply |-> Answer("active_calls", FALSE, ""), commands |-> cmds]
  ELSE [reply |-> Answer("error", FALSE, "Unknown message type"), commands |-> cmds]

\* ------------------------------------------------------------------ actions
Init ==
  /\ connected = FALSE
  /\ client = FALSE
  /\ websocket_clients = <<>>
  /\ active_calls = [u \in Uids |-> 0]
  /\ objs = <<>>
  /\ btask = <<>>
  /\ rtask = <<>>
  /\ commands = <<>>
  /\ wspc = [h \in Handles |-> "idle"]
  /\ sent = [h \in Handles |-> <<>>]
  /\ lifecycle = [u \in Uids |-> "other"]
  /\ result = NoResult
  /\ reply = [h \in Handles |-> NoReply]
  /\ handlers_active_calls = [u \in Uids |-> 0]

\* connect(): the AMIClient constructor or login() may raise.
Connect(outcome) ==
  /\ client' = (client \/ outcome # "no_client")
  /\ connected' = (outcome = "ok")
  /\ UNCHANGED <<websocket_clients, active_calls, objs, btask, rtask, commands,
                 wspc, sent, lifecycle>>
  /\ UNCHANGED <<result, reply>>
  /\ UNCHANGED handlers_active_calls

\* disconnect()
Disconnect ==
  /\ client
  /\ connected' = FALSE
  /\ UNCHANGED <<client, websocket_clients, active_calls, objs, btask, rtask,
                 commands, wspc, sent, lifecycle>>
  /\ UNCHANGED <<result, reply>>
  /\ UNCHANGED handlers_active_calls

\* disconnect() when logoff() raises: the exception leaves disconnect before
\* self.connected is written.
DisconnectRaises ==
  /\ client
  /\ result' = [op |-> "disconnect", success |-> FALSE]
  /\ UNCHANGED <<connected, client, websocket_clients, active_calls, objs, btask,
                 rtask, commands, wspc, sent, lifecycle, reply>>
  /\ UNCHANGED handlers_active_calls

\* POST /calls/originate: originate_call(to_number, from_number, context).
RestOriginate(to_number, from_number, context, ok) ==
  /\ LET r == OriginateCall(connected, client, commands, to_number, from_number,
                            context, ok)
     IN /\ commands' = r.commands
        /\ result' = [op |-> "originate_call", success |-> r.success]
  /\ UNCHANGED <<connected, client, websocket_clients, active_calls, objs, btask,
                 rtask, wspc, sent, lifecycle, reply>>
  /\ UNCHANGED handlers_active_calls

\* POST /calls/hangup: hangup_call(channel).
RestHangup(channel, ok) ==
  /\ LET r == HangupCall(connected, client, commands, channel, ok)
     IN /\ commands' = r.commands
        /\ result' = [op |-> "hangup_call", success |-> r.success]
  /\ UNCHANGED <<connected, client, websocket_clients, active_calls, objs, btask,
                 rtask, wspc, sent, lifecycle, reply>>
  /\ UNCHANGED handlers_active_calls

\* _handle_ami_event(event)
HandleAmiEvent(ev) ==
  /\ LET n == Len(objs) + 1
     IN /\ active_calls' = CallsAfter(active_calls, ev, n)
        /\ rtask' = Append(rtask, NewRoutingTask(ev))
        /\ btask' = Append(btask, NewBroadcastTask(Mutates(active_calls, ev)))
        /\ objs' = Collect(ObjsAfter(Append(objs, NewCallEvent(ev)), active_calls, ev),
                           active_calls', btask', rtask')
        /\ lifecycle' = [lifecycle EXCEPT ![ev.Uniqueid] = LifecycleAfter(@, Kind(ev))]
  /\ UNCHANGED <<connected, client, websocket_clients, commands, wspc, sent>>
  /\ UNCHANGED <<result, reply>>
  /\ handlers_active_calls' =
       HandlersCallsAfter(handlers_active_calls, ev, Len(objs) + 1)

\* The Redirect action _route_call builds for a channel, destination "1000".
Redirect(channel) ==
  [action |-> "Redirect", channel |-> channel, context |-> "from-internal",
   exten |-> "1000"]

\* RouteCall that ends without sending.
RouteCall_Skips(n, ok) ==
  /\ n \in DOMAIN rtask
  /\ rtask[n].pc = "created"
  /\ EarlierStarted(n)
  /\ rtask' = [rtask EXCEPT ![n].pc = "done"]
  /\ objs' = Collect(objs, active_calls, btask, rtask')
  /\ UNCHANGED <<connected, client, websocket_clients, active_calls, btask,
                 commands, wspc, sent, lifecycle>>
  /\ UNCHANGED <<result, reply>>
  /\ UNCHANGED handlers_active_calls

\* RouteCall without the test of the link in _route_call.
RouteCall_IgnoresLink(n, ok) ==
  /\ n \in DOMAIN rtask
  /\ rtask[n].pc = "created"
  /\ EarlierStarted(n)
  /\ rtask' = [rtask EXCEPT ![n].pc = "done"]
  /\ commands' = IF ok THEN Append(commands, Redirect(objs[n].channel)) ELSE commands
  /\ objs' = Collect(objs, active_calls, btask, rtask')
  /\ UNCHANGED <<connected, client, websocket_clients, active_calls, btask,
                 wspc, sent, lifecycle>>
  /\ UNCHANGED <<result, reply>>
  /\ UNCHANGED handlers_active_calls

\* _handle_incoming_gsm_call -> _route_call: one step, send_action is synchronous
\* and may raise (ok = FALSE).
RouteCall(n, ok) ==
  /\ n \in DOMAIN rtask
  /\ rtask[n].pc = "created"
  /\ EarlierStarted(n)
  /\ rtask' = [rtask EXCEPT ![n].pc = "done"]
  /\ commands' =
       IF connected /\ client /\ ok
         THEN Append(commands, Redirect(objs[n].channel))
         ELSE commands
  /\ objs' = Collect(objs, active_calls, btask, rtask')
  /\ UNCHANGED <<connected, client, websocket_clients, active_calls, btask,
                 wspc, sent, lifecycle>>
  /\ UNCHANGED <<result, reply>>
  /\ UNCHANGED handlers_active_calls

\* _broadcast_event, first step: up to the first await.
BroadcastStart(n) ==
  /\ n \in DOMAIN btask
  /\ btask[n].pc = "created"
  /\ EarlierStarted(n) /\ rtask[n].pc # "created"
  /\ IF websocket_clients = <<>>
       THEN /\ btask' = [btask EXCEPT ![n] = Ended([btask[n] EXCEPT !.pc = "done"])]
            /\ UNCHANGED <<websocket_clients, sent>>
       ELSE LET t0 == [btask[n] EXCEPT !.message = EventMessage(n, objs[n]),
                                       !.present = Range(websocket_clients)]
                r == LoopNext(t0, websocket_clients)
            IN /\ btask' = [btask EXCEPT ![n] = Kept(r.task)]
               /\ sent' = SentAfter(r)
               /\ UNCHANGED websocket_clients
  /\ objs' = Collect(objs, active_calls, btask', rtask)
  /\ UNCHANGED <<connected, client, active_calls, rtask, commands, wspc, lifecycle>>
  /\ UNCHANGED <<result, reply>>
  /\ UNCHANGED handlers_active_calls

\* _broadcast_event resumed from "await websocket.send_text(message)": the send
\* returned (ok) or raised; then the loop goes on to the next await or to the end.
BroadcastResume(n, ok) ==
  /\ n \in DOMAIN btask
  /\ btask[n].pc = "await"
  /\ LET r == Resumed(btask[n], ok, websocket_clients)
     IN /\ websocket_clients' = r.list
        /\ btask' = [Disturb(btask, websocket_clients, r.list) EXCEPT ![n] = Kept(r.task)]
        /\ sent' = SentAfter(r)
  /\ UNCHANGED <<connected, client, active_calls, objs, rtask, commands, wspc, lifecycle>>
  /\ UNCHANGED <<result, reply>>
  /\ UNCHANGED handlers_active_calls

\* Handles are numbered in the order their connections are opened.
Opens(h) ==
  wspc[h] = "idle" /\ \A g \in 1..(h - 1) : wspc[g] # "idle"

\* websocket_endpoint: accept() raises before the handle is added.
WsAcceptFails(h) ==
  /\ Opens(h)
  /\ wspc' = [wspc EXCEPT ![h] = "closed"]
  /\ UNCHANGED <<connected, client, websocket_clients, active_calls, objs, btask,
                 rtask, commands, sent, lifecycle>>
  /\ UNCHANGED <<result, reply>>
  /\ UNCHANGED handlers_active_calls

\* websocket_endpoint: accept(), add_websocket_client, get_status, and the call
\* of send_text for the status message; suspended in that await.
WsSubscribe(h) ==
  /\ Opens(h)
  /\ websocket_clients' = AddWebsocketClient(websocket_clients, h)
  /\ btask' = Disturb(btask, websocket_clients, websocket_clients')
  /\ wspc' = [wspc EXCEPT ![h] = "status"]
  /\ UNCHANGED <<connected, client, active_calls, objs, rtask, commands, sent,
                 lifecycle>>
  /\ UNCHANGED <<result, reply>>
  /\ UNCHANGED handlers_active_calls

\* The finally clause of websocket_endpoint.
WsFinally(h) ==
  /\ websocket_clients' = RemoveWebsocketClient(websocket_clients, h)
  /\ btask' = Disturb(btask, websocket_clients, websocket_clients')
  /\ wspc' = [wspc EXCEPT ![h] = "closed"]

\* websocket_endpoint resumed from the status send: get_active_calls and the call
\* of send_text for it, or the exception path into finally.
WsStatusSent(h, ok) ==
  /\ wspc[h] = "status"
  /\ IF ok
       THEN /\ wspc' = [wspc EXCEPT ![h] = "calls"]
            /\ UNCHANGED <<websocket_clients, btask>>
       ELSE WsFinally(h)
  /\ UNCHANGED <<connected, client, active_calls, objs, rtask, commands, sent,
                 lifecycle>>
  /\ UNCHANGED <<result, reply>>
  /\ UNCHANGED handlers_active_calls

\* websocket_endpoint resumed from the active-calls send: into the receive loop,
\* or the exception path into finally.
WsCallsSent(h, ok) ==
  /\ wspc[h] = "calls"
  /\ IF ok
       THEN /\ wspc' = [wspc EXCEPT ![h] = "receive"]
            /\ UNCHANGED <<websocket_clients, btask>>
       ELSE WsFinally(h)
  /\ UNCHANGED <<connected, client, active_calls, objs, rtask, commands, sent,
                 lifecycle>>
  /\ UNCHANGED <<result, reply>>
  /\ UNCHANGED handlers_active_calls

\* websocket_endpoint: receive_text raises WebSocketDisconnect; finally unsubscribes.
WsDisconnect(h) ==
  /\ wspc[h] = "receive"
  /\ WsFinally(h)
  /\ UNCHANGED <<connected, client, active_calls, objs, rtask, commands, sent,
                 lifecycle>>
  /\ UNCHANGED <<result, reply>>
  /\ UNCHANGED handlers_active_calls

\* websocket_endpoint resumed from receive_text with the text data. Text that is
\* not JSON is answered with an error; JSON that is not an object makes
\* message.get raise, which the endpoint's except clause catches on the way to
\* finally; an object is handled up to the call of send_text for the answer.
WsMessage(h, data, ok) ==
  /\ wspc[h] = "receive"
  /\ IF data.kind = "not_an_object"
       THEN /\ WsFinally(h)
            /\ UNCHANGED <<commands, reply>>
       ELSE LET r == IF data.kind = "invalid_json"
                       THEN [reply |-> Answer("error", FALSE, "Invalid JSON format"),
                             commands |-> commands]
                       ELSE HandleWebsocketMessage(data, connected, client, commands, ok)
            IN /\ reply' = [reply EXCEPT ![h] = r.reply]
               /\ commands' = r.commands
               /\ wspc' = [wspc EXCEPT ![h] = "reply"]
               /\ UNCHANGED <<websocket_clients, btask>>
  /\ UNCHANGED <<connected, client, active_calls, objs, rtask, sent, lifecycle, result>>
  /\ UNCHANGED handlers_active_calls

\* websocket_endpoint resumed from the send of the answer: back into receive_text,
\* or the exception path into finally.
WsReplySent(h, ok) ==
  /\ wspc[h] = "reply"
  /\ reply' = [reply EXCEPT ![h] = NoReply]
  /\ IF ok
       THEN /\ wspc' = [wspc EXCEPT ![h] = "receive"]
            /\ UNCHANGED <<websocket_clients, btask>>
       ELSE WsFinally(h)
  /\ UNCHANGED <<connected, client, active_calls, objs, rtask, commands, sent,
                 lifecycle, result>>
  /\ UNCHANGED handlers_active_calls

\* The system with at most maxEv events processed and maxCl connections opened.
Next(maxEv, maxCl) ==
  \/ \E outcome \in {"no_client", "login_failed", "ok"} : Connect(outcome)
  \/ Disconnect
  \/ \E ev \in RawEvents : Len(objs) < maxEv /\ HandleAmiEvent(ev)
  \/ \E n \in DOMAIN rtask, ok \in BOOLEAN : RouteCall(n, ok)
  \/ \E n \in DOMAIN btask : BroadcastStart(n)
  \/ \E n \in DOMAIN btask, ok \in BOOLEAN : BroadcastResume(n, ok)
  \/ \E h \in 1..maxCl : WsAcceptFails(h)
  \/ \E h \in 1..maxCl : WsSubscribe(h)
  \/ \E h \in Handles, ok \in BOOLEAN : WsStatusSent(h, ok)
  \/ \E h \in Handles, ok \in BOOLEAN : WsCallsSent(h, ok)
  \/ \E h \in Handles : WsDisconnect(h)

\* The manager while no websocket client connects: every broadcast task finds
\* the subscriber list empty and returns.
NextRegistry(maxEv) ==
  \/ \E outcome \in {"no_client", "login_failed", "ok"} : Connect(outcome)
  \/ Disconnect
  \/ \E ev \in RawEvents : Len(objs) < maxEv /\ HandleAmiEvent(ev)
  \/ \E n \in DOMAIN rtask, ok \in BOOLEAN : RouteCall(n, ok)
  \/ \E n \in DOMAIN btask : BroadcastStart(n)

\* The manager and the REST control API while no websocket client connects, with
\* at most maxEv events processed and maxCmd commands sent.
NextGateway(maxEv, maxCmd) ==
  \/ \E outcome \in {"no_client", "login_failed", "ok"} : Connect(outcome)
  \/ Disconnect
  \/ DisconnectRaises
  \/ \E ev \in RawEvents : Len(objs) < maxEv /\ HandleAmiEvent(ev)
  \/ \E n \in DOMAIN rtask, ok \in BOOLEAN : RouteCall(n, ok)
  \/ \E n \in DOMAIN btask : BroadcastStart(n)
  \/ \E t \in Numbers, f \in Numbers, ok \in BOOLEAN :
       Len(commands) < maxCmd /\ RestOriginate(t, f, "from-internal", ok)
  \/ \E ch \in Channels, ok \in BOOLEAN :
       Len(commands) < maxCmd /\ RestHangup(ch, ok)

Spec == Init /\ [][Next(MaxEvents, MaxClients)]_vars

\* The system with subscribers that send messages: at most maxEv events
\* processed, maxCl connections opened and maxCmd commands sent.
NextSession(maxEv, maxCl, maxCmd) ==
  \/ Next(maxEv, maxCl)
  \/ \E h \in 1..maxCl, data \in WsInputs, ok \in BOOLEAN :
       Len(commands) < maxCmd /\ WsMessage(h, data, ok)
  \/ \E h \in 1..maxCl, ok \in BOOLEAN : WsReplySent(h, ok)

SpecSession == Init /\ [][NextSession(MaxSesEvents, MaxSesClients, MaxSesCommands)]_vars

\* The event handler on events of every channel, context, type and channel
\* state, while no websocket client connects.
NextClassify(maxEv) ==
  \/ \E ev \in ClsEvents : Len(objs) < maxEv /\ HandleAmiEvent(ev)
  \/ \E n \in DOMAIN rtask, ok \in BOOLEAN : RouteCall(n, ok)
  \/ \E n \in DOMAIN btask : BroadcastStart(n)

SpecClassify == Init /\ [][NextClassify(MaxClsEvents)]_vars

\* The manager once connect() has succeeded, while the link stays connected (no
\* disconnect, send_action returns) and no websocket client connects.
NextLive(maxEv) ==
  \/ Connect("ok")
  \/ \E ev \in RawEvents : connected /\ Len(objs) < maxEv /\ HandleAmiEvent(ev)
  \/ \E n \in DOMAIN rtask : RouteCall(n, TRUE)
  \/ \E n \in DOMAIN btask : BroadcastStart(n)

\* The event loop runs every task that is ready: a created task takes its step.
SpecLive ==
  /\ Init /\ [][NextLive(MaxLiveEvents)]_vars
  /\ WF_vars(\E n \in DOMAIN rtask : RouteCall(n, TRUE))
  /\ WF_vars(\E n \in DOMAIN btask : BroadcastStart(n))

\* The manager and the REST control API on events of every call type, while no
\* websocket client connects.
NextRouting(maxEv, maxCmd) ==
  \/ \E outcome \in {"no_client", "login_failed", "ok"} : Connect(outcome)
  \/ Disconnect
  \/ \E ev \in RtEvents : Len(objs) < maxEv /\ HandleAmiEvent(ev)
  \/ \E n \in DOMAIN rtask, ok \in BOOLEAN : RouteCall(n, ok)
  \/ \E n \in DOMAIN btask : BroadcastStart(n)
  \/ \E ok \in BOOLEAN :
       Len(commands) < maxCmd /\ RestOriginate("1000", "2000", "from-internal", ok)
  \/ \E ok \in BOOLEAN : Len(commands) < maxCmd /\ RestHangup(SipChannel, ok)

SpecRouting == Init /\ [][NextRouting(MaxRtEvents, MaxRtCommands)]_vars

SpecGateway == Init /\ [][NextGateway(MaxGwEvents, MaxGwCommands)]_vars

SpecRegistry == Init /\ [][NextRegistry(MaxRegEvents)]_vars

\* ------------------------------------------------------------------- claims
\* The registry entry of an id: its call_state, or "absent".
EntryState(calls, heap, u) ==
  IF calls[u] = 0 THEN "absent" ELSE heap[calls[u]].call_state

\* C1: after a creation event for an id the registry holds an entry for it in
\* state RINGING; after a following Newstate with channel-state 6 the entry is
\* ANSWERED; after a following Hangup the registry has no entry for the id;
\* events of other ids may come in between.
C1_RegistryFollowsLifecycle ==
  \A u \in Uids :
    /\ lifecycle[u] = "created" =>
         /\ EntryState(active_calls, objs, u) = "RINGING"
         /\ objs[active_calls[u]].unique_id = u
    /\ lifecycle[u] = "answered" =>
         /\ EntryState(active_calls, objs, u) = "ANSWERED"
         /\ objs[active_calls[u]].unique_id = u
    /\ lifecycle[u] = "hungup" => EntryState(active_calls, objs, u) = "absent"

\* The whole sequence was processed for u1, with an event of u2 in between.
C1_Witness ==
  /\ lifecycle["u1"] = "hungup"
  /\ active_calls["u1"] = 0
  /\ lifecycle["u2"] = "created"

\* A running broadcast whose next resumption, with outcome ok, ends the loop.
Finishing(n, ok) ==
  /\ btask[n].pc = "await"
  /\ Resumed(btask[n], ok, websocket_clients).task.pc \in {"done", "raised"}

\* C2: a broadcast to the N subscribers of the list, during which nobody else
\* changes the list, calls send_text on exactly those N; when exactly one push
\* fails, on subscriber k, the other N-1 sends return, the task ends without an
\* exception and leaves the list as it was without k, the others in their order
\* (so a later broadcast, which pushes to the list it finds, pushes to those N-1).
C2_FailedSubscriberRemoved ==
  \A n \in DOMAIN btask, ok \in BOOLEAN :
    (Finishing(n, ok) /\ ~btask[n].disturbed) =>
      LET r == Resumed(btask[n], ok, websocket_clients)
          failed == Range(r.task.disconnected_clients)
          N == Range(websocket_clients)
      IN /\ r.task.got \cup failed = N
         /\ r.task.got \cap failed = {}
         /\ Cardinality(failed) = 1 =>
              /\ r.task.pc = "done"
              /\ r.task.got = N \ failed
              /\ Cardinality(r.task.got) = Cardinality(N) - 1
              /\ r.list = SelectSeq(websocket_clients, LAMBDA h : h \notin failed)

\* A broadcast to two subscribers is about to end, undisturbed, with the push to
\* the first one failed and the push to the second one under way.
C2_Witness ==
  \E n \in DOMAIN btask :
    /\ btask[n].pc = "await"
    /\ ~btask[n].disturbed
    /\ Len(websocket_clients) = 2
    /\ btask[n].idx = 2
    /\ Len(btask[n].disconnected_clients) = 1
    /\ Finishing(n, TRUE)

\* C3: when a broadcast ends, every subscriber that was in the list from the
\* task's first step on has had the event pushed: its send returned or failed.
C3_NobodySkipped ==
  \A n \in DOMAIN btask, ok \in BOOLEAN :
    Finishing(n, ok) =>
      LET r == Resumed(btask[n], ok, websocket_clients)
      IN r.task.present \subseteq (r.task.got \cup Range(r.task.disconnected_clients))

\* C4: no call-event notification is pushed to a subscriber between its status
\* snapshot and its active-calls snapshot (its endpoint is suspended in the send
\* of the status snapshot).
C4_SnapshotsBeforeEvents ==
  [][\A h \in Handles : Len(sent'[h]) > Len(sent[h]) => wspc[h] # "status"]_vars

\* C5: over the whole event sequence at most one routing task is started for a
\* unique id.
C5_OneRedirectPerCall ==
  \A u \in Uids :
    Cardinality({n \in DOMAIN rtask : rtask[n].pc # "none" /\ rtask[n].unique_id = u}) <= 1

\* C6: the call_state of an id's registry entry moves only from RINGING to
\* ANSWERED and from either to removal; an id without an entry gets one in state
\* RINGING only.
C6_StateMovesForward ==
  [][\A u \in Uids :
       <<EntryState(active_calls, objs, u), EntryState(active_calls', objs', u)>> \in
         { <<"absent", "absent">>, <<"absent", "RINGING">>,
           <<"RINGING", "RINGING">>, <<"RINGING", "ANSWERED">>, <<"RINGING", "absent">>,
           <<"ANSWERED", "ANSWERED">>, <<"ANSWERED", "absent">> }]_vars

\* C7: the notifications pushed to a subscriber are pushed in the order in which
\* their events were processed.
C7_PerSubscriberOrder ==
  \A h \in Handles :
    \A i, j \in DOMAIN sent[h] : i < j => sent[h][i] < sent[h][j]

\* C8: no broadcast task ends with an exception.
C8_NoBroadcastRaises ==
  \A n \in DOMAIN btask : btask[n].pc # "raised"

\* The registry as a reader sees it: the keys and the entries.
Registry(calls, heap) ==
  <<calls, [u \in Uids |-> IF calls[u] = 0 THEN Freed ELSE heap[calls[u]]]>>

\* C9: while the pushes of an event that wrote the registry are not complete
\* (its broadcast is suspended in a send, or has subscribers to push to and has
\* not run yet), no step writes the registry.
C9_MutationAndBroadcastAtomic ==
  [][(\E n \in DOMAIN btask :
        /\ btask[n].mutated
        /\ \/ btask[n].pc = "await"
           \/ btask[n].pc = "created" /\ websocket_clients # <<>>)
       => Registry(active_calls', objs') = Registry(active_calls, objs)]_vars

\* C10: the notification pushed for a creation event carries call_state ringing.
C10_CreationPushedAsRinging ==
  \A n \in DOMAIN btask :
    (btask[n].pc = "await" /\ btask[n].message.body.event_type = "Newchannel")
      => btask[n].message.body.call_state = "ringing"

\* C11: a step that processes a Hangup event whose unique id is not a key of the
\* registry leaves the registry as it was, keys and entries, and the handler
\* reaches its end (the event's broadcast task is created: nothing was raised).
C11_HangupUnknownIsNoOp ==
  [][\A ev \in RawEvents :
       (ev.Event = "Hangup" /\ active_calls[ev.Uniqueid] = 0 /\ HandleAmiEvent(ev))
         => /\ Registry(active_calls', objs') = Registry(active_calls, objs)
            /\ Len(btask') = Len(btask) + 1]_vars

\* A Hangup that found no entry for its id has been processed while the registry
\* holds an entry of the other id.
C11_Witness ==
  \E n \in DOMAIN btask :
    /\ btask[n].pc = "created"
    /\ objs[n].event_type = "Hangup"
    /\ ~btask[n].mutated
    /\ \E u \in Uids : active_calls[u] # 0

\* C12: a step that processes a Newstate event, whatever its channel state,
\* whose unique id is not a key of the registry leaves the registry as it was:
\* no entry for the id, the other entries unchanged.
C12_NewstateUnknownIsNoOp ==
  [][\A ev \in RawEvents :
       (ev.Event = "Newstate" /\ active_calls[ev.Uniqueid] = 0 /\ HandleAmiEvent(ev))
         => /\ Registry(active_calls', objs') = Registry(active_calls, objs)
            /\ active_calls'[ev.Uniqueid] = 0]_vars

\* A Newstate with channel state 6 that found no entry for its id has been
\* processed while the registry holds an entry of the other id.
C12_Witness ==
  \E n \in DOMAIN btask :
    /\ btask[n].pc = "created"
    /\ objs[n].event_type = "Newstate"
    /\ objs[n].call_state = "ANSWERED"
    /\ ~btask[n].mutated
    /\ active_calls[objs[n].unique_id] = 0
    /\ \E u \in Uids : active_calls[u] # 0

\* A step of the control API that calls originate_call or hangup_call.
ControlCall ==
  \/ \E t \in Numbers, f \in Numbers, ok \in BOOLEAN :
       RestOriginate(t, f, "from-internal", ok)
  \/ \E ch \in Channels, ok \in BOOLEAN : RestHangup(ch, ok)

\* C13: while connected is false or there is no client, every call of
\* originate_call and of hangup_call, whatever its arguments, returns failure
\* and sends no command.
C13_NotConnectedFailsFast ==
  [][((~connected \/ ~client) /\ ControlCall)
       => (~result'.success /\ commands' = commands)]_vars

\* originate_call was called on a manager that never had a client, and failed.
C13_Witness ==
  /\ ~client
  /\ result = [op |-> "originate_call", success |-> FALSE]

\* C14: a call of disconnect() on a connected manager leaves connected false,
\* and get_status reports it; connected becomes true again only by a connect()
\* that succeeds; and while connected is false every call of originate_call or
\* hangup_call returns failure and sends no command.
C14_DisconnectStopsControl ==
  [][/\ (connected /\ (Disconnect \/ DisconnectRaises))
          => (~connected' /\ ~GetStatus'.connected)
     /\ (~connected /\ connected') => Connect("ok")
     /\ (~connected /\ ControlCall) => (~result'.success /\ commands' = commands)]_vars

\* C15: a routing task that runs while connected is false or there is no client
\* sends nothing and ends, leaving the registry and the broadcast tasks as they
\* were; a task that has ended never runs again; and a command is sent only in
\* the one run of a routing task, for the channel of that task's own creation
\* event: nothing is queued or retried when the link connects later.
C15_SkippedRedirectStaysSkipped ==
  [][/\ \A n \in DOMAIN rtask, ok \in BOOLEAN :
          ((~connected \/ ~client) /\ RouteCall(n, ok))
            => /\ commands' = commands
               /\ rtask'[n].pc = "done"
               /\ Registry(active_calls', objs') = Registry(active_calls, objs)
               /\ btask' = btask
     /\ \A n \in DOMAIN rtask : rtask[n].pc = "done" => rtask'[n].pc = "done"
     /\ commands' # commands
          => \E n \in DOMAIN rtask :
               /\ rtask[n].pc = "created" /\ rtask'[n].pc = "done"
               /\ commands' = Append(commands, Redirect(objs[n].channel))]_vars

\* The routing task of an incoming GSM call ran on a manager that never had a
\* client; afterwards the link is still down, nothing was sent and the call's
\* registry entry is the one its creation event stored.
C15_Witness ==
  \E n \in DOMAIN rtask :
    /\ ~client
    /\ rtask[n].pc = "done"
    /\ commands = <<>>
    /\ active_calls[rtask[n].unique_id] = n

\* The routing tasks created up to event n.
RoutingTasksUpTo(n) == {m \in DOMAIN rtask : m <= n /\ rtask[m].pc # "none"}

\* C16: while the link stays connected, the routing task created for a creation
\* event classified INCOMING_GSM eventually has a Redirect sent for the event's
\* channel with destination "1000" (the k-th routing task sends the k-th
\* command); and a step that processes a Hangup leaves the registry without an
\* entry for its unique id.
C16_RedirectEventuallySent ==
  /\ \A n \in 1..MaxLiveEvents :
       (n \in DOMAIN rtask /\ rtask[n].pc = "created")
         ~> (LET k == Cardinality(RoutingTasksUpTo(n))
             IN /\ n \in DOMAIN rtask
                /\ rtask[n].pc = "done"
                /\ Len(commands) >= k
                /\ commands[k] = Redirect(ChannelOf(rtask[n].unique_id))
                /\ commands[k].exten = "1000")
  /\ [][\A ev \in RawEvents :
          (ev.Event = "Hangup" /\ HandleAmiEvent(ev)) => active_calls'[ev.Uniqueid] = 0]_vars

\* The redirect of the GSM call was sent, and then the call's Hangup removed its
\* entry from the registry.
C16_Witness ==
  \E n \in DOMAIN btask :
    /\ connected
    /\ rtask[1].pc = "done"
    /\ commands = <<Redirect(GsmChannel)>>
    /\ btask[n].pc = "created"
    /\ objs[n].event_type = "Hangup"
    /\ objs[n].unique_id = "u1"
    /\ btask[n].mutated
    /\ active_calls["u1"] = 0

\* The step processes event ev (the first conjuncts follow from the last and
\* only spare its evaluation for the other events).
Handles_Event(ev) ==
  /\ Len(objs') = Len(objs) + 1
  /\ objs'[Len(objs')].event_type = ev.Event
  /\ objs'[Len(objs')].channel = ev.Channel
  /\ objs'[Len(objs')].unique_id = ev.Uniqueid
  /\ HandleAmiEvent(ev)

\* The channel name holds the letters g, s, m in a row, in either case.
HasGsmMarker(channel) ==
  \E i \in DOMAIN channel :
    /\ i + 2 \in DOMAIN channel
    /\ channel[i] \in {"g", "G"}
    /\ channel[i + 1] \in {"s", "S"}
    /\ channel[i + 2] \in {"m", "M"}

\* C17: the CallEvent built for an event has call_type INCOMING_GSM when the
\* channel name holds the GSM marker in any case, whatever the context;
\* otherwise SIP_TRUNK for context from-bevatel, INTERNAL for from-internal and
\* INCOMING_GSM for every other context.
C17_CallTypeTable ==
  [][\A ev \in ClsEvents :
       Handles_Event(ev) =>
         objs'[Len(objs')].call_type =
           (CASE HasGsmMarker(ev.Channel) -> "INCOMING_GSM"
              [] ~HasGsmMarker(ev.Channel) /\ ev.Context = "from-bevatel" -> "SIP_TRUNK"
              [] ~HasGsmMarker(ev.Channel) /\ ev.Context = "from-internal" -> "INTERNAL"
              [] OTHER -> "INCOMING_GSM")]_vars

\* An event on a channel with the marker in mixed case was classified as an
\* incoming GSM call.
C17_Witness ==
  \E n \in DOMAIN objs :
    /\ objs[n].channel = <<"G", "s", "M", "/", "3">>
    /\ objs[n].call_type = "INCOMING_GSM"

\* C18: the CallEvent built for an event has call_state RINGING for Newchannel,
\* ANSWERED for Newstate with channel state "6", RINGING for Newstate with any
\* other channel state, HANGUP for Hangup and RINGING for every other type.
C18_CallStateTable ==
  [][\A ev \in ClsEvents :
       Handles_Event(ev) =>
         objs'[Len(objs')].call_state =
           (CASE ev.Event = "Newchannel" -> "RINGING"
              [] ev.Event = "Newstate" /\ ev.ChannelState = "6" -> "ANSWERED"
              [] ev.Event = "Newstate" /\ ev.ChannelState # "6" -> "RINGING"
              [] ev.Event = "Hangup" -> "HANGUP"
              [] OTHER -> "RINGING")]_vars

\* A Newstate whose channel state is not 6 was classified as ringing.
C18_Witness ==
  \E n \in DOMAIN objs :
    /\ objs[n].event_type = "Newstate"
    /\ objs[n].call_state = "RINGING"

\* The last event processed was the creation event ev: the entry of its id is
\* the object of that event, as the handler built it.
JustCreated(ev) ==
  /\ ev.Event = "Newchannel"
  /\ objs # <<>>
  /\ active_calls[ev.Uniqueid] = Len(objs)
  /\ objs[Len(objs)] = NewCallEvent(ev)

\* The keys of the registry and the values of their entries.
Entries(calls, heap) ==
  [u \in Uids |-> IF calls[u] = 0 THEN Freed ELSE heap[calls[u]]]

\* C19: a step that processes a creation event right after the same creation
\* event leaves the registry with the keys and the entry values it had after
\* the first: one entry for the id with the same values, the other entries
\* unchanged.
C19_ReplayedCreationIdempotent ==
  [][\A ev \in RawEvents :
       (JustCreated(ev) /\ HandleAmiEvent(ev))
         => /\ Entries(active_calls', objs') = Entries(active_calls, objs)
            /\ active_calls'[ev.Uniqueid] # 0
            /\ \A u \in Uids \ {ev.Uniqueid} : active_calls'[u] = active_calls[u]]_vars

\* A creation event was processed twice in a row while the other id has an
\* entry: the registry holds the object of the second.
C19_Witness ==
  \E n \in DOMAIN objs :
    /\ n >= 2
    /\ n = Len(objs)
    /\ objs[n].event_type = "Newchannel"
    /\ active_calls[objs[n].unique_id] = n
    /\ btask[n - 1].pc = "created"
    /\ objs[n - 1] = objs[n]
    /\ \E u \in Uids : u # objs[n].unique_id /\ active_calls[u] # 0

\* A JSON object that has an unrecognized type (or none), or that asks for
\* originate_call or hangup_call without a required parameter.
Unanswerable(data) ==
  /\ data.kind = "object"
  /\ \/ data.type \notin {"originate_call", "hangup_call", "get_status", "get_active_calls"}
     \/ data.type = "originate_call" /\ (data.to_number = "" \/ data.from_number = "")
     \/ data.type = "hangup_call" /\ data.channel = <<>>

\* What every step of subscriber h's endpoint that handles a received text has
\* (it follows from WsMessage and only spares its evaluation for other steps).
Handles_Message(h) ==
  /\ wspc[h] = "receive"
  /\ UNCHANGED <<connected, client, active_calls, objs, rtask, sent, lifecycle, result>>

\* C20: a step in which a subscriber's endpoint handles such a message leaves it
\* sending an error message to that subscriber, sends no command, leaves the
\* registry and the subscriber list as they were; and when the send of an
\* answer returns, the endpoint is back in receive_text with the list unchanged.
C20_BadMessageAnsweredWithError ==
  [][\A h \in Handles :
       /\ Handles_Message(h) => \A data \in WsObjects, ok \in BOOLEAN :
            (Unanswerable(data) /\ WsMessage(h, data, ok))
              => /\ reply'[h].type = "error"
                 /\ wspc'[h] = "reply"
                 /\ commands' = commands
                 /\ Registry(active_calls', objs') = Registry(active_calls, objs)
                 /\ websocket_clients' = websocket_clients
       /\ WsReplySent(h, TRUE)
            => (wspc'[h] = "receive" /\ websocket_clients' = websocket_clients)]_vars

\* With the link connected, a call in the registry and two subscribers, one of
\* them is being answered that its hangup_call request names no channel; no
\* command was sent.
C20_Witness ==
  \E h \in Handles :
    /\ wspc[h] = "reply"
    /\ reply[h] = Answer("error", FALSE, "Missing channel")
    /\ connected
    /\ commands = <<>>
    /\ Len(websocket_clients) = 2
    /\ \E u \in Uids : active_calls[u] # 0

\* C21: once the endpoint of a handle has returned (its finally clause has run
\* remove_websocket_client), the handle is not in the subscriber list and no
\* step of any broadcast task, one suspended at a send to another subscriber
\* included, calls send_text on it.
C21_NoPushAfterUnsubscribe ==
  [][\A h \in Handles :
       wspc[h] = "closed"
         => /\ h \notin Range(websocket_clients)
            /\ h \notin Range(websocket_clients')
            /\ sent'[h] = sent[h]]_vars

\* A broadcast is suspended at its send to handle 1, which is still subscribed;
\* handle 2 was unsubscribed after the broadcast's first step and has not been
\* pushed to.
C21_Witness ==
  \E n \in DOMAIN btask :
    /\ btask[n].pc = "await"
    /\ btask[n].cur = 1
    /\ btask[n].disturbed
    /\ websocket_clients = <<1>>
    /\ wspc[2] = "closed"
    /\ sent[2] = <<>>

\* The event is of one of the three kinds: a creation event, a state change
\* with channel state 6 for an id in the registry, a hangup for an id in the
\* registry.
WritesRegistry(ev) ==
  \/ ev.Event = "Newchannel"
  \/ ev.Event = "Newstate" /\ ev.ChannelState = "6" /\ active_calls[ev.Uniqueid] # 0
  \/ ev.Event = "Hangup" /\ active_calls[ev.Uniqueid] # 0

\* C22: a step that processes an event of another kind than the three leaves
\* the keys of the registry and every entry as they were; a creation event
\* stores the event under its id, a state change of the first kind leaves the
\* entry of its id answered, a hangup of the third kind removes the key of its
\* id, each leaving the other ids alone; and the step of every event adds
\* exactly one broadcast task, not yet run, for the object of that event, and
\* leaves the tasks of the earlier events as they were.
C22_OnlyThreeKindsWrite ==
  [][\A ev \in RawEvents :
       Handles_Event(ev)
         => LET n == Len(objs) + 1
                u == ev.Uniqueid
            IN /\ ~WritesRegistry(ev)
                    => /\ active_calls' = active_calls
                       /\ Entries(active_calls', objs') = Entries(active_calls, objs)
               /\ WritesRegistry(ev)
                    => /\ \A v \in Uids \ {u} :
                            /\ active_calls'[v] = active_calls[v]
                            /\ Entries(active_calls', objs')[v] = Entries(active_calls, objs)[v]
                       /\ ev.Event = "Newchannel" => active_calls'[u] = n
                       /\ ev.Event = "Newstate"
                            => /\ active_calls'[u] = active_calls[u]
                               /\ EntryState(active_calls', objs', u) = "ANSWERED"
                       /\ ev.Event = "Hangup" => active_calls'[u] = 0
               /\ Len(btask') = n
               /\ btask'[n].pc = "created"
               /\ SubSeq(btask', 1, n - 1) = btask
               /\ objs'[n].event_type = ev.Event
               /\ objs'[n].channel = ev.Channel
               /\ objs'[n].unique_id = ev.Uniqueid]_vars

\* A state change with another channel state than 6 was processed last, for an
\* id whose call is ringing, while the other id has an answered call: both
\* entries are as they were and the event's broadcast task is waiting to run.
C22_Witness ==
  /\ Len(objs) = 4
  /\ objs[4].event_type = "Newstate"
  /\ objs[4].call_state = "RINGING"
  /\ btask[4].pc = "created"
  /\ active_calls[objs[4].unique_id] # 0
  /\ EntryState(active_calls, objs, objs[4].unique_id) = "RINGING"
  /\ \E v \in Uids \ {objs[4].unique_id} : EntryState(active_calls, objs, v) = "ANSWERED"

\* The step appends a Redirect to the commands sent to the link.
SendsRedirect ==
  /\ Len(commands') > Len(commands)
  /\ commands'[Len(commands')].action = "Redirect"

\* C23: a step that sends a Redirect is the run of the routing task of a
\* creation event classified INCOMING_GSM, and the command is the Redirect of
\* that event's channel; the step that processes an event sends nothing and
\* starts a routing task exactly for a creation event classified INCOMING_GSM
\* (none for a state change, a hangup, another event, or a creation event
\* classified SIP_TRUNK or INTERNAL); and a waiting routing task keeps the
\* event it was started for.
C23_RedirectOnlyForIncomingGsm ==
  [][/\ SendsRedirect
          => \E n \in DOMAIN rtask :
               /\ rtask[n].pc = "created" /\ rtask'[n].pc = "done"
               /\ \A m \in DOMAIN rtask \ {n} : rtask'[m] = rtask[m]
               /\ objs[n].event_type = "Newchannel"
               /\ objs[n].call_type = "INCOMING_GSM"
               /\ commands' = Append(commands, Redirect(objs[n].channel))
     /\ \A ev \in RtEvents :
          Handles_Event(ev)
            => LET n == Len(objs) + 1
               IN /\ commands' = commands
                  /\ objs'[n].channel = ev.Channel
                  /\ rtask'[n].pc \in {"none", "created"}
                  /\ rtask'[n].pc = "created"
                       <=> (ev.Event = "Newchannel" /\ objs'[n].call_type = "INCOMING_GSM")
     /\ \A n \in DOMAIN rtask :
          (rtask[n].pc = "created" /\ rtask'[n].pc = "created")
            => /\ objs'[n].event_type = objs[n].event_type
               /\ objs'[n].channel = objs[n].channel
               /\ objs'[n].call_type = objs[n].call_type]_vars

\* Two creation events on different channels were processed with the link up:
\* the first classified SIP_TRUNK, with no routing task, the second classified
\* INCOMING_GSM, whose task has sent the one command, the Redirect of the second
\* event's channel.
C23_Witness ==
  /\ Len(objs) = 2
  /\ objs[1].event_type = "Newchannel" /\ objs[1].call_type = "SIP_TRUNK"
  /\ objs[2].event_type = "Newchannel" /\ objs[2].call_type = "INCOMING_GSM"
  /\ objs[1].channel # objs[2].channel
  /\ rtask[1].pc = "none"
  /\ rtask[2].pc = "done"
  /\ commands = <<Redirect(objs[2].channel)>>

\* The unique ids that are keys of a registry.
Keys(calls) == {u \in Uids : calls[u] # 0}

\* C24: after every event the registry of the manager of handlers.py and the
\* registry of the manager of asterisk_manager.py, given the same events from
\* empty registries, have the same keys, and get_status reports the same
\* number of active calls for both.
C24_SameKeysInBothManagers ==
  /\ Keys(handlers_active_calls) = Keys(active_calls)
  /\ ActiveCallCount(handlers_active_calls) = ActiveCallCount(active_calls)

\* Both managers were given creation and answer of one id and creation and
\* hangup of the other, the hangup last: each holds the one key, whose entry
\* the manager of asterisk_manager.py has marked answered.
C24_Witness ==
  /\ Len(objs) = 4
  /\ \E u \in Uids, v \in Uids :
       /\ u # v
       /\ Keys(active_calls) = {v}
       /\ Keys(handlers_active_calls) = {v}
       /\ EntryState(active_calls, objs, v) = "ANSWERED"
       /\ lifecycle[u] = "other"
       /\ objs[4].event_type = "Hangup"
       /\ ActiveCallCount(handlers_active_calls) = 1

====
